---- MODULE Spec2Model ----
(***************************************************************************)
(* Model of sprint_dashboard_production.py: the module-level data load     *)
(* (get_data_path, read_excel, fillna, melt) and the three Dash callbacks  *)
(* update_stats, update_main_chart and update_summary_table.               *)
(*                                                                         *)
(* Story points are fixed-point numbers counted in hundredths of a point   *)
(* (300 is 3.0 points, 25 is 0.25 points), so that the one-decimal         *)
(* rounding of the summary table and the .0f / .1f formatting of the       *)
(* statistics are real conversions.  All values used are multiples of      *)
(* 0.25, which binary floating point holds exactly.                        *)
(***************************************************************************)
EXTENDS Integers, Sequences, FiniteSets, TLC

VARIABLES
    fs,                  \* file system: candidate location -> [status, table]
    environ,             \* whether DATA_FILE_PATH is set
    argsort_ties,        \* how this build's quicksort argsort orders equal keys
    pc,                  \* "start", "loaded", "ready", "serving", "crashed"
    csv_path,            \* the location get_data_path returned
    error,               \* the locations listed by the caught FileNotFoundError
    df,                  \* the wide table
    df_melted,           \* the long-form records
    developers,          \* sorted distinct developers (dropdown options)
    sprints,             \* sorted sprint column names
    selected_developers, \* value of 'developer-filter'
    yaxis_range,         \* value of 'yaxis-range'
    show_clicks,         \* n_clicks of 'btn-show-all'
    hide_clicks,         \* n_clicks of 'btn-hide-all'
    stats,               \* children of the four statistic cards
    chart,               \* figure of 'main-chart'
    table,               \* children of 'summary-table'
    fired                \* callbacks run by the last event

vars == <<fs, environ, argsort_ties, pc, csv_path, error, df, df_melted,
          developers, sprints, selected_developers, yaxis_range, show_clicks,
          hide_clicks, stats, chart, table, fired>>

startup == <<csv_path, error, df, df_melted, developers, sprints>>
world == <<fs, environ, argsort_ties>>
controls == <<selected_developers, yaxis_range, show_clicks, hide_clicks>>
outputs == <<stats, chart, table, fired>>

----------------------------------------------------------------------------
(* Bounds of the model *)

MaxRows == 2
MaxSprints == 2
MaxCells == 4
MaxClicks == 2

(* A missing cell as read_excel yields it, and the not-a-number result of  *)
(* mean() and max() over no rows.                                          *)
NaN == -1

(* None where a string or a figure is expected *)
None == "None"

(* None as the value of the dropdown before any selection: a value that    *)
(* is falsy like the empty list and holds no developer.                    *)
Unset == {"None"}

DevNames == {"A", "B", "C"}
NameOrder == <<"A", "B", "C">>
SprintOrder == <<"S1", "S2", "S3", "S4">>
LabelOrder == NameOrder \o SprintOrder \o <<"Sprint", "Story Points">>

(* Cell values of the spreadsheets, in hundredths of a point *)
PointValues == {0, 25, 300}

----------------------------------------------------------------------------
(* Generic helpers *)

Range(s) == {s[i] : i \in 1..Len(s)}

Max(S) == CHOOSE x \in S : \A y \in S : x >= y

RECURSIVE SumSeq(_)
SumSeq(s) == IF s = <<>> THEN 0 ELSE Head(s) + SumSeq(Tail(s))

(* Position of a label in Python's string order *)
Rank(label) == CHOOSE i \in 1..Len(LabelOrder) : LabelOrder[i] = label

(* sorted(): the members of a set of labels as an ascending sequence *)
RECURSIVE Sorted(_)
Sorted(S) ==
    IF S = {} THEN <<>>
    ELSE LET m == CHOOSE x \in S : \A y \in S : Rank(x) <= Rank(y)
         IN <<m>> \o Sorted(S \ {m})

(* The distinct members of a sequence, in order of first appearance *)
RECURSIVE Unique(_)
Unique(s) ==
    IF s = <<>> THEN <<>>
    ELSE LET init == Unique(SubSeq(s, 1, Len(s) - 1))
             last == s[Len(s)]
         IN IF last \in Range(init) THEN init ELSE Append(init, last)

(* num/den rounded to the nearest integer, ties to the even one: what      *)
(* round(), numpy's round and the f-string formats do on exact binaries    *)
RoundHalfEven(num, den) ==
    LET q == num \div den
        r == num % den
    IN IF 2 * r < den THEN q
       ELSE IF 2 * r > den THEN q + 1
       ELSE IF q % 2 = 0 THEN q ELSE q + 1

----------------------------------------------------------------------------
(* Spreadsheets *)

(* A wide table: the sprint columns next to the Developer column, and the  *)
(* rows, each a developer with one cell per sprint column.                 *)
Frame(columns, rows) == [cols |-> columns, rows |-> rows]

Shapes ==
    {<<r, k>> \in (0..MaxRows) \X (0..MaxSprints) : r * k <= MaxCells}

TablesOver(values) ==
    UNION {{Frame(SubSeq(SprintOrder, 1, sh[2]), rs) :
                rs \in [1..sh[1] ->
                          [Developer : DevNames, cells : [1..sh[2] -> values]]]} :
           sh \in Shapes}

NoFile == [status |-> "missing", table |-> Frame(<<>>, <<>>)]

----------------------------------------------------------------------------
(* Startup: lines 18-66 *)

local_path == "local"
prod_path == "script"
env_path == "env"
default_path == "default"

os_path_exists(path) == fs[path].status # "missing"

(* get_data_path: the first location that exists, else FileNotFoundError   *)
(* carrying the four locations tried.                                      *)
get_data_path_swapped ==
    IF os_path_exists(local_path) THEN [raised |-> FALSE, path |-> local_path]
    ELSE IF os_path_exists(prod_path) THEN [raised |-> FALSE, path |-> prod_path]
    ELSE IF os_path_exists(default_path)
         THEN [raised |-> FALSE, path |-> default_path]
    ELSE IF environ = "set" /\ os_path_exists(env_path)
         THEN [raised |-> FALSE, path |-> env_path]
    ELSE [raised |-> TRUE,
          tried |-> <<local_path, prod_path,
                      IF environ = "set" THEN env_path ELSE "N/A (from env)",
                      default_path>>]

get_data_path ==
    IF os_path_exists(local_path) THEN [raised |-> FALSE, path |-> local_path]
    ELSE IF os_path_exists(prod_path) THEN [raised |-> FALSE, path |-> prod_path]
    ELSE IF environ = "set" /\ os_path_exists(env_path)
         THEN [raised |-> FALSE, path |-> env_path]
    ELSE IF os_path_exists(default_path)
         THEN [raised |-> FALSE, path |-> default_path]
    ELSE [raised |-> TRUE,
          tried |-> <<local_path, prod_path,
                      IF environ = "set" THEN env_path ELSE "N/A (from env)",
                      default_path>>]

(* df.fillna(0, inplace=True) *)
fillna(frame) ==
    Frame(frame.cols,
          [i \in 1..Len(frame.rows) |->
              [Developer |-> frame.rows[i].Developer,
               cells |-> [j \in 1..Len(frame.cols) |->
                            IF frame.rows[i].cells[j] = NaN THEN 0
                            ELSE frame.rows[i].cells[j]]]])

(* pd.DataFrame({'Developer': [], 'Sprint': [], 'Story Points': []}) *)
EmptyFrame == Frame(<<"Sprint", "Story Points">>, <<>>)

(* DataFrame.empty: some axis has length 0 (Developer is always a column) *)
empty(frame) == Len(frame.rows) = 0

Load_uncaught ==
    /\ pc = "start"
    /\ LET got == get_data_path IN
       IF got.raised
       THEN /\ error' = got.tried
            /\ csv_path' = None
            /\ df' = df
            /\ pc' = "crashed"
       ELSE /\ csv_path' = got.path
            /\ error' = <<>>
            /\ IF fs[got.path].status = "ok"
               THEN /\ df' = fillna(fs[got.path].table)
                    /\ pc' = "loaded"
               ELSE /\ df' = df
                    /\ pc' = "crashed"
    /\ UNCHANGED <<world, df_melted, developers, sprints, controls, outputs>>

(* The try block of lines 51-59.  An existing file that read_excel cannot  *)
(* parse raises something other than FileNotFoundError: nothing catches it *)
(* and the import of the module fails.                                     *)
Load ==
    /\ pc = "start"
    /\ LET got == get_data_path IN
       IF got.raised
       THEN /\ error' = got.tried
            /\ csv_path' = None
            /\ df' = EmptyFrame
            /\ pc' = "loaded"
       ELSE /\ csv_path' = got.path
            /\ error' = <<>>
            /\ IF fs[got.path].status = "ok"
               THEN /\ df' = fillna(fs[got.path].table)
                    /\ pc' = "loaded"
               ELSE /\ df' = df
                    /\ pc' = "crashed"
    /\ UNCHANGED <<world, df_melted, developers, sprints, controls, outputs>>

(* df.melt(id_vars="Developer", var_name="Sprint", value_name="Story       *)
(* Points"): column by column, the rows of each column in row order.       *)
melt_dropping_zeros(frame) ==
    LET R == Len(frame.rows)
        all == [n \in 1..(R * Len(frame.cols)) |->
                  LET j == ((n - 1) \div R) + 1
                      i == ((n - 1) % R) + 1
                  IN [Developer |-> frame.rows[i].Developer,
                      Sprint |-> frame.cols[j],
                      Points |-> frame.rows[i].cells[j]]]
    IN SelectSeq(all, LAMBDA rec : rec.Points # 0)

melt(frame) ==
    LET R == Len(frame.rows)
    IN [n \in 1..(R * Len(frame.cols)) |->
          LET j == ((n - 1) \div R) + 1
              i == ((n - 1) % R) + 1
          IN [Developer |-> frame.rows[i].Developer,
              Sprint |-> frame.cols[j],
              Points |-> frame.rows[i].cells[j]]]

(* Lines 61-66 *)
Melt ==
    /\ pc = "loaded"
    /\ df_melted' = IF ~empty(df) THEN melt(df) ELSE <<>>
    /\ developers' = IF ~empty(df)
                     THEN Sorted({df.rows[i].Developer : i \in 1..Len(df.rows)})
                     ELSE <<>>
    /\ sprints' = IF ~empty(df) THEN Sorted(Range(df.cols)) ELSE <<>>
    /\ pc' = "ready"
    /\ UNCHANGED <<world, csv_path, error, df, controls, outputs>>

----------------------------------------------------------------------------
(* The callbacks: lines 361-547 *)

(* Truth value of a dropdown value: None and the empty list are falsy *)
Truthy(selection) == selection # Unset /\ selection # {}

(* filtered_df = df_melted.copy(), narrowed by isin() when the selection   *)
(* is truthy.  The copy is a new frame: df_melted is not touched.          *)
filter_first_selected(records, selection) ==
    IF Truthy(selection)
    THEN SelectSeq(records,
                   LAMBDA rec : rec.Developer = Head(Sorted(selection)))
    ELSE records

filter(records, selection) ==
    IF Truthy(selection)
    THEN SelectSeq(records, LAMBDA rec : rec.Developer \in selection)
    ELSE records

Points(records) == [n \in 1..Len(records) |-> records[n].Points]

(* f"{x:,.0f}" and f"{x:.0f}": whole points; "nan" for not-a-number *)
format_0f(hundredths) ==
    IF hundredths = NaN THEN NaN ELSE RoundHalfEven(hundredths, 100)

(* Series.mean(): not-a-number over no rows.  The value is kept as the     *)
(* fraction sum / count; the two roundings below take it to tenths.        *)
mean_tenths(records) ==
    IF Len(records) = 0 THEN NaN
    ELSE RoundHalfEven(SumSeq(Points(records)), 10 * Len(records))

(* Series.max(): not-a-number over no rows *)
max_points(records) ==
    IF Len(records) = 0 THEN NaN ELSE Max(Range(Points(records)))

(* filtered_df[filtered_df['Story Points'] > 0]['Developer'].nunique() *)
nunique_all(records) ==
    Cardinality({records[n].Developer : n \in 1..Len(records)})

nunique_active(records) ==
    Cardinality({records[n].Developer :
                    n \in {m \in 1..Len(records) : records[m].Points > 0}})

ZeroStats == [total |-> 0, avg |-> 0, max |-> 0, active |-> 0]

(* update_stats: total and max in whole points, avg in tenths of a point   *)
(* (f"{avg:.1f}"), NaN where the card reads "nan".                         *)
update_stats(selection) ==
    IF df_melted = <<>> THEN ZeroStats
    ELSE LET filtered_df == filter(df_melted, selection)
         IN [total |-> format_0f(SumSeq(Points(filtered_df))),
             avg |-> mean_tenths(filtered_df),
             max |-> format_0f(max_points(filtered_df)),
             active |-> nunique_active(filtered_df)]

VisTrue == "True"
VisLegendOnly == "legendonly"
VisStrTrue == "'True'"

(* Lines 417-424.  n_clicks of a button never clicked is None or 0, both   *)
(* falsy; the model holds 0.  VisTrue is the boolean True, VisStrTrue the  *)
(* four-character string the hide-only branch assigns.                     *)
visibility(show, hide) ==
    IF show # 0 /\ hide # 0
    THEN (IF show > hide THEN VisTrue ELSE VisLegendOnly)
    ELSE IF show # 0 THEN VisTrue
    ELSE IF hide # 0 THEN VisStrTrue
    ELSE VisLegendOnly

(* px.line(..., color="Developer"): one trace per developer of the frame,  *)
(* in order of first appearance, x its sprints and y its points.  A frame  *)
(* without records has no developer; whatever trace plotly then draws      *)
(* holds no point and gets the same visibility as any other.               *)
px_line(records) ==
    LET names == Unique([n \in 1..Len(records) |-> records[n].Developer])
    IN [t \in 1..Len(names) |->
          LET own == SelectSeq(records, LAMBDA rec : rec.Developer = names[t])
          IN [name |-> names[t],
              x |-> [n \in 1..Len(own) |-> own[n].Sprint],
              y |-> Points(own),
              visible |-> "unset"]]

NoDataFigure ==
    [traces |-> <<>>, annotation |-> "No data available", yrange |-> None]

(* update_main_chart *)
update_main_chart(selection, range, show, hide) ==
    IF df_melted = <<>> THEN NoDataFigure
    ELSE LET fig == px_line(filter(df_melted, selection))
         IN [traces |-> [t \in 1..Len(fig) |->
                           [fig[t] EXCEPT !.visible = visibility(show, hide)]],
             annotation |-> None,
             yrange |-> range]

(* groupby('Developer').agg(sum, mean, max, count).round(1): one row per   *)
(* developer of the frame in sorted key order; the values in tenths.       *)
groupby_agg_max_as_total(records) ==
    LET keys == Sorted({records[n].Developer : n \in 1..Len(records)})
    IN [g \in 1..Len(keys) |->
          LET own == SelectSeq(records, LAMBDA rec : rec.Developer = keys[g])
          IN [Developer |-> keys[g],
              Total |-> RoundHalfEven(max_points(own), 10),
              Average |-> mean_tenths(own),
              Maximum |-> RoundHalfEven(max_points(own), 10),
              Count |-> Len(own)]]

groupby_agg(records) ==
    LET keys == Sorted({records[n].Developer : n \in 1..Len(records)})
    IN [g \in 1..Len(keys) |->
          LET own == SelectSeq(records, LAMBDA rec : rec.Developer = keys[g])
          IN [Developer |-> keys[g],
              Total |-> RoundHalfEven(SumSeq(Points(own)), 10),
              Average |-> mean_tenths(own),
              Maximum |-> RoundHalfEven(max_points(own), 10),
              Count |-> Len(own)]]

(* sort_values('Total Points', ascending=False) with the default           *)
(* kind='quicksort': descending totals.  pandas promises no order among    *)
(* equal totals; numpy's argsort fixes one per build, which argsort_ties   *)
(* holds: "stable" keeps the grouped order, "reversed" turns it round.     *)
Before(rows, i, j) ==
    \/ rows[i].Total > rows[j].Total
    \/ /\ rows[i].Total = rows[j].Total
       /\ IF argsort_ties = "stable" THEN i < j ELSE i > j

sort_values_ascending(rows) ==
    LET pos(i) == Cardinality({j \in 1..Len(rows) : j # i /\ Before(rows, i, j)}) + 1
    IN [p \in 1..Len(rows) |-> rows[CHOOSE i \in 1..Len(rows) : pos(i) = p]]

sort_values(rows) ==
    LET pos(i) == Cardinality({j \in 1..Len(rows) : j # i /\ Before(rows, j, i)}) + 1
    IN [p \in 1..Len(rows) |-> rows[CHOOSE i \in 1..Len(rows) : pos(i) = p]]

NoDataView == [kind |-> "No data available.", rows |-> <<>>]

(* update_summary_table *)
update_summary_table(selection) ==
    IF df_melted = <<>> THEN NoDataView
    ELSE [kind |-> "DataTable",
          rows |-> sort_values(groupby_agg(filter(df_melted, selection)))]

----------------------------------------------------------------------------
(* Dash's dispatch: a change of a component property runs the callbacks    *)
(* that name it as an Input (the decorators of lines 362-368, 386-393 and  *)
(* 476-479).                                                               *)

Inputs_update_stats_and_range == {"developer-filter", "yaxis-range"}

Inputs_update_stats == {"developer-filter"}

Inputs_update_main_chart ==
    {"developer-filter", "yaxis-range", "btn-show-all", "btn-hide-all"}

Inputs_update_summary_table == {"developer-filter"}

Triggered(input) ==
    (IF input \in Inputs_update_stats THEN {"update_stats"} ELSE {})
    \cup (IF input \in Inputs_update_main_chart THEN {"update_main_chart"} ELSE {})
    \cup (IF input \in Inputs_update_summary_table
          THEN {"update_summary_table"} ELSE {})

Callbacks == {"update_stats", "update_main_chart", "update_summary_table"}

(* Run the callbacks of `run` on the new control values; the outputs of    *)
(* the others stay as they are.                                            *)
Dispatch(run) ==
    /\ fired' = run
    /\ stats' = IF "update_stats" \in run
                THEN update_stats(selected_developers') ELSE stats
    /\ chart' = IF "update_main_chart" \in run
                THEN update_main_chart(selected_developers', yaxis_range',
                                       show_clicks', hide_clicks')
                ELSE chart
    /\ table' = IF "update_summary_table" \in run
                THEN update_summary_table(selected_developers') ELSE table

(* Slider of lines 302-307: value [0, 45], bounds 0-50 *)
YRanges == {<<0, 45>>, <<5, 50>>}

(* The page is served: every callback runs once on the initial values      *)
(* (prevent_initial_call=False).                                           *)
PageLoad ==
    /\ pc = "ready"
    /\ pc' = "serving"
    /\ UNCHANGED controls
    /\ fired' = Callbacks
    /\ stats' = update_stats(selected_developers)
    /\ chart' = update_main_chart(selected_developers, yaxis_range,
                                  show_clicks, hide_clicks)
    /\ table' = update_summary_table(selected_developers)
    /\ UNCHANGED <<world, startup>>

(* 'developer-filter' takes the value `selection`.  The callbacks work on *)
(* df_melted.copy() and assign no module global (lines 373, 402, 484).     *)
OnDeveloperFilter_inplace(selection) ==
    /\ pc = "serving"
    /\ selected_developers' = selection
    /\ UNCHANGED <<yaxis_range, show_clicks, hide_clicks>>
    /\ Dispatch(Triggered("developer-filter"))
    /\ df_melted' = filter(df_melted, selection)
    /\ UNCHANGED <<world, pc, csv_path, error, df, developers, sprints>>

OnDeveloperFilter(selection) ==
    /\ pc = "serving"
    /\ selected_developers' = selection
    /\ UNCHANGED <<yaxis_range, show_clicks, hide_clicks>>
    /\ Dispatch(Triggered("developer-filter"))
    /\ UNCHANGED <<world, pc, startup>>

(* The dropdown offers the developers of the dataset (line 292), but the   *)
(* callbacks take what the request holds: any developers, among them ones  *)
(* the spreadsheet does not hold, and possibly the current value again.    *)
AnySelection == {Unset} \cup SUBSET DevNames

PostDeveloperFilter ==
    \E selection \in AnySelection : OnDeveloperFilter(selection)

OnYAxisRange(range) ==
    /\ pc = "serving"
    /\ range # yaxis_range
    /\ yaxis_range' = range
    /\ UNCHANGED <<selected_developers, show_clicks, hide_clicks>>
    /\ Dispatch(Triggered("yaxis-range"))
    /\ UNCHANGED <<world, pc, startup>>

DragYAxis == \E range \in YRanges : OnYAxisRange(range)

ClickShowAll ==
    /\ pc = "serving"
    /\ show_clicks < MaxClicks
    /\ show_clicks' = show_clicks + 1
    /\ UNCHANGED <<selected_developers, yaxis_range, hide_clicks>>
    /\ Dispatch(Triggered("btn-show-all"))
    /\ UNCHANGED <<world, pc, startup>>

ClickHideAll ==
    /\ pc = "serving"
    /\ hide_clicks < MaxClicks
    /\ hide_clicks' = hide_clicks + 1
    /\ UNCHANGED <<selected_developers, yaxis_range, show_clicks>>
    /\ Dispatch(Triggered("btn-hide-all"))
    /\ UNCHANGED <<world, pc, startup>>

----------------------------------------------------------------------------
(* Specifications *)

(* The process before the module body runs, on the file system `files`     *)
InitOn(files, env) ==
    /\ fs = files
    /\ environ = env
    /\ argsort_ties \in {"stable", "reversed"}
    /\ pc = "start"
    /\ csv_path = None
    /\ error = <<>>
    /\ df = EmptyFrame
    /\ df_melted = <<>>
    /\ developers = <<>>
    /\ sprints = <<>>
    /\ selected_developers = Unset
    /\ yaxis_range = <<0, 45>>
    /\ show_clicks = 0
    /\ hide_clicks = 0
    /\ stats = None
    /\ chart = None
    /\ table = None
    /\ fired = {}

Locations == {local_path, prod_path, env_path, default_path}

NoFiles == [c \in Locations |-> NoFile]

Deployed(t) == [NoFiles EXCEPT ![prod_path] = [status |-> "ok", table |-> t]]

(* The dashboard in use: the spreadsheet next to the script, or nowhere;   *)
(* its Developer column names each developer once.                         *)
UITables ==
    {t \in TablesOver({300}) :
        \A i, j \in 1..Len(t.rows) :
            i # j => t.rows[i].Developer # t.rows[j].Developer}

Init ==
    \E env \in {"unset", "set"} :
        \/ InitOn(NoFiles, env)
        \/ env = "unset" /\ \E t \in UITables : InitOn(Deployed(t), env)

Next ==
    \/ Load
    \/ Melt
    \/ PageLoad
    \/ PostDeveloperFilter
    \/ DragYAxis
    \/ ClickShowAll
    \/ ClickHideAll

Spec == Init /\ [][Next]_vars

(* The view functions over every small spreadsheet and every selection *)
(* The table [{A, S1: 5, S2: 0}, {B, S1: 3, S2: 10}] *)
ScenarioTable ==
    Frame(<<"S1", "S2">>,
          <<[Developer |-> "A", cells |-> <<500, 0>>],
            [Developer |-> "B", cells |-> <<300, 1000>>]>>)

InitViews ==
    \E t \in TablesOver(PointValues) \cup {ScenarioTable} :
        InitOn(Deployed(t), "unset")

NextViews ==
    \/ Load
    \/ Melt
    \/ PageLoad
    \/ PostDeveloperFilter

SpecViews == InitViews /\ [][NextViews]_vars

(* The loader over every state of the four locations *)
LoadTables ==
    {t \in TablesOver({NaN, 300}) :
        Len(t.rows) = 1 /\ Len(t.cols) = 2 /\ t.rows[1].Developer = "A"}

FileStates ==
    {NoFile, [status |-> "corrupt", table |-> Frame(<<>>, <<>>)]}
    \cup {[status |-> "ok", table |-> t] : t \in LoadTables}

InitLoad ==
    \E files \in [Locations -> FileStates], env \in {"unset", "set"} :
        /\ env = "unset" => files[env_path] = NoFile
        /\ InitOn(files, env)

NextLoad ==
    \/ Load
    \/ Melt

SpecLoad == InitLoad /\ [][NextLoad]_vars

----------------------------------------------------------------------------
(* Claims *)

Started == pc \in {"loaded", "ready", "serving"}

(* C1: after any clicks on 'show all' and 'hide all', every series of the  *)
(* chart carries the same visibility: fully visible exactly when show-all  *)
(* was clicked strictly more often than hide-all, legendonly otherwise     *)
(* (a tie, no click, hide-all clicked alone).                              *)
C1_VisibilityFollowsClickCounts ==
    pc = "serving" =>
        \A t \in 1..Len(chart.traces) :
            chart.traces[t].visible =
                IF show_clicks > hide_clicks THEN VisTrue ELSE VisLegendOnly

(* C2: when the records update_stats aggregates are none (an empty         *)
(* dataset, or a selection that matches no record), update_stats returns   *)
(* total 0, average 0.0, max 0 and 0 active developers, never "nan".       *)
C2_StatsOfNoRecordsAreZero ==
    pc = "serving" /\ filter(df_melted, selected_developers) = <<>>
        => stats = ZeroStats

(* C3: with the input file missing at all four locations the load failure  *)
(* is caught and turned into an empty dataset, the process never fails,    *)
(* and whatever the controls are set to the statistics are all zero, the   *)
(* table is the no-data view and the chart has no series.                  *)
C3_MissingFileServesEmptyViews ==
    (\A c \in Locations : fs[c].status = "missing") =>
        /\ pc # "crashed"
        /\ Started => /\ df = EmptyFrame
                      /\ Len(error) = 4
        /\ pc \in {"ready", "serving"} => df_melted = <<>>
        /\ pc = "serving" => /\ stats = ZeroStats
                             /\ table = NoDataView
                             /\ chart.traces = <<>>

C3_Witness ==
    /\ \A c \in Locations : fs[c].status = "missing"
    /\ pc = "serving"
    /\ selected_developers = {}
    /\ yaxis_range # <<0, 45>>
    /\ show_clicks > 0
    /\ hide_clicks > show_clicks
    /\ stats = ZeroStats

Min(S) == CHOOSE x \in S : \A y \in S : x <= y

(* The locations in the order the loader is said to try them *)
CandidateOrder == <<local_path, prod_path, env_path, default_path>>

Present(c) == fs[c].status # "missing" /\ (c = env_path => environ = "set")

Parses(c) == fs[c].status = "ok" /\ (c = env_path => environ = "set")

FirstOf(Holds(_)) ==
    CandidateOrder[Min({i \in 1..4 : Holds(CandidateOrder[i])})]

Attempted ==
    <<local_path, prod_path,
      IF environ = "set" THEN env_path ELSE "N/A (from env)", default_path>>

(* C4 as stated: the dataset comes from the first location in the order    *)
(* local, script directory, DATA_FILE_PATH, current directory that exists  *)
(* and parses; the not-found error, with the locations tried, is raised    *)
(* only when no location is found.                                         *)
C4_FirstCandidateThatExistsAndParses ==
    pc # "start" =>
        IF \E c \in Locations : Parses(c)
        THEN /\ Started
             /\ csv_path = FirstOf(Parses)
             /\ df = fillna(fs[FirstOf(Parses)].table)
             /\ error = <<>>
        ELSE (error # <<>>) <=> ~(\E c \in Locations : Present(c))

(* C4 amended: the dataset comes from the first location in that order     *)
(* that exists; when that file does not parse the start fails with the     *)
(* parse error and no later location is tried; the not-found error, with   *)
(* the four locations tried, is raised exactly when no location exists,    *)
(* and is caught into the empty table.                                     *)
C4_FirstCandidateThatExists ==
    pc # "start" =>
        IF \E c \in Locations : Present(c)
        THEN /\ csv_path = FirstOf(Present)
             /\ error = <<>>
             /\ fs[csv_path].status = "ok" =>
                    Started /\ df = fillna(fs[csv_path].table)
             /\ fs[csv_path].status = "corrupt" => pc = "crashed"
        ELSE /\ Started
             /\ csv_path = None
             /\ error = Attempted
             /\ df = EmptyFrame

C4_Witness ==
    /\ pc = "loaded"
    /\ environ = "set"
    /\ fs[local_path].status = "missing"
    /\ fs[prod_path].status = "missing"
    /\ fs[env_path].status = "ok"
    /\ fs[default_path].status = "ok"
    /\ fs[env_path].table # fs[default_path].table
    /\ fs[env_path].table.rows[1].cells[1] = NaN
    /\ csv_path = env_path
    /\ df.rows[1].cells[1] = 0

(* C5: update_stats with no selection (unset or empty) returns the same    *)
(* four values as update_stats with every developer of the dataset         *)
(* selected.                                                               *)
C5_NoSelectionIsAllDevelopers ==
    pc = "serving" /\ selected_developers = Range(developers) =>
        /\ stats = update_stats(Unset)
        /\ stats = update_stats({})

C5_Witness ==
    /\ pc = "serving"
    /\ Len(developers) >= 2
    /\ selected_developers = Range(developers)
    /\ stats.active >= 2
    /\ stats = update_stats(Unset)

(* Row of the raw table where a developer first appears *)
FirstRow(dev) == Min({i \in 1..Len(df.rows) : df.rows[i].Developer = dev})

NonAscending(rows) ==
    \A p, q \in 1..Len(rows) : p < q => rows[p].Total >= rows[q].Total

(* C6 as stated: the rows of update_summary_table are non-ascending by     *)
(* total points, and developers with equal totals keep the relative order  *)
(* they have in the raw records.                                           *)
C6_SortedWithTiesInRawOrder ==
    pc = "serving" /\ table.kind = "DataTable" =>
        /\ NonAscending(table.rows)
        /\ \A p, q \in 1..Len(table.rows) :
              p < q /\ table.rows[p].Total = table.rows[q].Total =>
                  FirstRow(table.rows[p].Developer)
                      < FirstRow(table.rows[q].Developer)

(* C6 amended: the rows of update_summary_table are non-ascending by total *)
(* points (as rounded to one decimal), one row per developer of the        *)
(* filtered records; the order of developers with equal totals is not the  *)
(* raw row order.                                                          *)
C6_SortedNonAscending ==
    pc = "serving" /\ table.kind = "DataTable" =>
        /\ NonAscending(table.rows)
        /\ {table.rows[p].Developer : p \in 1..Len(table.rows)}
              = {df_melted[n].Developer :
                    n \in {m \in 1..Len(df_melted) :
                             ~Truthy(selected_developers)
                             \/ df_melted[m].Developer \in selected_developers}}
        /\ \A p, q \in 1..Len(table.rows) :
              p # q => table.rows[p].Developer # table.rows[q].Developer

C6_Witness ==
    /\ pc = "serving"
    /\ table.kind = "DataTable"
    /\ Len(table.rows) >= 2
    /\ table.rows[1].Total > table.rows[2].Total
    /\ Rank(table.rows[1].Developer) > Rank(table.rows[2].Developer)
    /\ FirstRow(table.rows[1].Developer) < FirstRow(table.rows[2].Developer)

SumTotals(rows) == SumSeq([p \in 1..Len(rows) |-> rows[p].Total])

(* C7 as stated: for a non-empty dataset and no selection, the total       *)
(* points of the rows of update_summary_table add up to the total of       *)
(* update_stats (table totals are in tenths, the statistic in points).     *)
C7_TableTotalsAddUpToStatsTotal ==
    pc = "serving" /\ df_melted # <<>> /\ ~Truthy(selected_developers) =>
        SumTotals(table.rows) = 10 * stats.total

WholePoints == \A n \in 1..Len(df_melted) : df_melted[n].Points % 100 = 0

(* C7 amended: for a non-empty dataset whose story points are all whole    *)
(* numbers and no selection, the total points of the rows of               *)
(* update_summary_table add up to the total of update_stats.               *)
C7_WholePointTotalsAddUp ==
    pc = "serving" /\ df_melted # <<>> /\ ~Truthy(selected_developers)
      /\ WholePoints =>
        SumTotals(table.rows) = 10 * stats.total

C7_Witness ==
    /\ pc = "serving"
    /\ WholePoints
    /\ selected_developers = {}
    /\ Len(table.rows) >= 2
    /\ table.rows[2].Total > 0
    /\ \E p \in 1..Len(table.rows) : table.rows[p].Count >= 2
    /\ SumTotals(table.rows) = 10 * stats.total

(* The raw table as the file holds it *)
Raw == fs[csv_path].table

Pairs(frame, dev, col, val) ==
    {<<i, j>> \in (1..Len(frame.rows)) \X (1..Len(frame.cols)) :
        /\ frame.rows[i].Developer = dev
        /\ frame.cols[j] = col
        /\ frame.rows[i].cells[j] = val}

(* C8: melt produces exactly rows x (columns - 1) long-form records, one   *)
(* for every (row, sprint column) pair of the raw table, none dropped or   *)
(* duplicated; an empty raw table yields no record.                        *)
C8_MeltOneRecordPerCell ==
    pc \in {"ready", "serving"} /\ csv_path # None =>
        /\ Len(df_melted) = Len(Raw.rows) * Len(Raw.cols)
        /\ \A dev \in DevNames, col \in Range(df.cols), val \in PointValues :
              Cardinality({n \in 1..Len(df_melted) :
                              df_melted[n] = [Developer |-> dev, Sprint |-> col,
                                              Points |-> val]})
                  = Cardinality(Pairs(df, dev, col, val))

C8_Witness ==
    /\ pc = "ready"
    /\ Len(df.rows) = 2
    /\ Len(df.cols) = 2
    /\ df.rows[1].Developer = df.rows[2].Developer
    /\ df.rows[1].cells = <<0, 0>>
    /\ df.rows[2].cells = <<0, 25>>
    /\ Len(df_melted) = 4

(* C9: a change of the y-axis range or a click on 'show all' or 'hide all' *)
(* runs update_main_chart alone and leaves the statistics and the table as *)
(* they are; a change of the developer selection runs all three callbacks; *)
(* statistics and table are those of the current selection.                *)
C9_EachControlRunsItsViews ==
    [][pc = "serving" =>
         /\ (\/ yaxis_range' # yaxis_range
             \/ show_clicks' # show_clicks
             \/ hide_clicks' # hide_clicks)
                => /\ fired' = {"update_main_chart"}
                   /\ stats' = stats
                   /\ table' = table
                   /\ chart' = update_main_chart(selected_developers,
                                  yaxis_range', show_clicks', hide_clicks')
         /\ selected_developers' # selected_developers
                => /\ fired' = Callbacks
                   /\ chart' = update_main_chart(selected_developers',
                                  yaxis_range, show_clicks, hide_clicks)
         /\ stats' = update_stats(selected_developers')
         /\ table' = update_summary_table(selected_developers')]_vars

C9_Witness ==
    /\ pc = "serving"
    /\ fired = {"update_main_chart"}
    /\ Truthy(selected_developers)
    /\ selected_developers # Range(developers)
    /\ yaxis_range # <<0, 45>>
    /\ show_clicks > 0
    /\ stats = update_stats(selected_developers)
    /\ stats # update_stats(Unset)

(* The long-form dataset as startup produced it from the file *)
StartupDataset ==
    IF csv_path = None \/ empty(fillna(Raw)) THEN <<>> ELSE melt(fillna(Raw))

(* C10: the long-form dataset is never mutated: after any invocations of   *)
(* the three callbacks it is the dataset startup produced, and so each     *)
(* callback's output is the one its current inputs give, however often     *)
(* and with whatever arguments the callbacks ran before.                   *)
C10_DatasetNeverMutated ==
    pc \in {"ready", "serving"} =>
        /\ df_melted = StartupDataset
        /\ pc = "serving" =>
              /\ stats = update_stats(selected_developers)
              /\ table = update_summary_table(selected_developers)
              /\ chart = update_main_chart(selected_developers, yaxis_range,
                                           show_clicks, hide_clicks)

C10_Witness ==
    /\ pc = "serving"
    /\ Len(developers) >= 2
    /\ selected_developers = {developers[2]}
    /\ Len(df_melted) = 4
    /\ Len(table.rows) = 1
    /\ hide_clicks > 0
    /\ yaxis_range # <<0, 45>>
    /\ chart.traces[1].name = developers[2]

(* The records update_stats is said to compute over *)
Chosen ==
    {n \in 1..Len(df_melted) :
        ~Truthy(selected_developers)
        \/ df_melted[n].Developer \in selected_developers}

RECURSIVE SumOver(_)
SumOver(S) ==
    IF S = {} THEN 0
    ELSE LET n == CHOOSE m \in S : TRUE
         IN df_melted[n].Points + SumOver(S \ {n})

Largest(S) == Max({df_melted[n].Points : n \in S})

ActiveDevelopers(S) ==
    {d \in DevNames :
        \E n \in S : df_melted[n].Developer = d /\ df_melted[n].Points > 0}

OnScenario == csv_path # None /\ Raw = ScenarioTable

ScenarioStats == [total |-> 18, avg |-> 45, max |-> 10, active |-> 2]

(* C11 as stated: over the records whose developer is selected (all when   *)
(* nothing is selected), total is the sum of their points, max the largest *)
(* of their points and the active developer count the number of distinct   *)
(* developers with a record above 0; the table [{A, 5, 0}, {B, 3, 10}]     *)
(* with no selection gives 18, 4.5, 10 and 2.                              *)
C11_StatsAreSumMaxAndActiveCount ==
    pc = "serving" /\ df_melted # <<>> /\ Chosen # {} =>
        /\ 100 * stats.total = SumOver(Chosen)
        /\ 100 * stats.max = Largest(Chosen)
        /\ stats.active = Cardinality(ActiveDevelopers(Chosen))
        /\ OnScenario /\ ~Truthy(selected_developers) => stats = ScenarioStats

(* C11 amended: total is the sum of their points and max the largest of    *)
(* their points, each returned rounded to the nearest whole number (exact  *)
(* when the points are whole numbers); the active developer count and the  *)
(* values for the table [{A, 5, 0}, {B, 3, 10}] are as stated.             *)
C11_StatsAreRoundedSumMaxAndActiveCount ==
    pc = "serving" /\ df_melted # <<>> /\ Chosen # {} =>
        /\ 2 * (100 * stats.total - SumOver(Chosen)) \in -100..100
        /\ 2 * (100 * stats.max - Largest(Chosen)) \in -100..100
        /\ SumOver(Chosen) % 100 = 0 => 100 * stats.total = SumOver(Chosen)
        /\ Largest(Chosen) % 100 = 0 => 100 * stats.max = Largest(Chosen)
        /\ stats.active = Cardinality(ActiveDevelopers(Chosen))
        /\ OnScenario /\ ~Truthy(selected_developers) => stats = ScenarioStats

C11_Witness ==
    /\ pc = "serving"
    /\ OnScenario
    /\ selected_developers = Unset
    /\ Len(df_melted) = 4
    /\ stats = ScenarioStats

====
